---- MODULE Spec2Model ----
(***************************************************************************)
(* A model of sherpago: the generator that turns a sherpadoc schema tree   *)
(* into a Go client package (src/sherpago.go).                             *)
(*                                                                         *)
(* Go strings on which the code works character by character (names,      *)
(* documentation) are sequences of one-character strings; strings the     *)
(* code only concatenates (type tokens, rendered types) are TLA+ strings. *)
(***************************************************************************)
EXTENDS Integers, Sequences, FiniteSets, TLC

VARIABLES
    doc,     \* the input handed to Generate (what the reader `in` holds)
    pc,      \* position inside Generate
    out,     \* what the destination writer `out` has received, one entry per write
    bout,    \* what the bufio.Writer `bout` holds and has not flushed
    retErr,  \* the result of Generate
    stack,   \* the call stack of generateSection: one frame per active call
    call     \* a call of one of the package's pure functions: input and result

vars == <<doc, pc, out, bout, retErr, stack, call>>

(***************************************************************************)
(* Bounds of the model.                                                    *)
(***************************************************************************)
MaxTokens == 3
MaxDocLen == 4
MaxFields == 2
MaxValues == 2
MaxParams == 2
MaxReturns == 2
MaxSubs == 2
MaxSubSubs == 1

\* const sherpadocVersion = 1
sherpadocVersion == 1

(***************************************************************************)
(* Strings as character sequences.                                         *)
(***************************************************************************)
Lowers == <<"a","b","c","d","e","f","g","h","i","j","k","l","m",
            "n","o","p","q","r","s","t","u","v","w","x","y","z">>
Uppers == <<"A","B","C","D","E","F","G","H","I","J","K","L","M",
            "N","O","P","Q","R","S","T","U","V","W","X","Y","Z">>

LowerSet == {Lowers[i] : i \in 1..Len(Lowers)}
UpperSet == {Uppers[i] : i \in 1..Len(Uppers)}
IsLower(c) == c \in LowerSet
IsUpper(c) == c \in UpperSet

\* the letter of the other case, for each letter
UpperOf == [c \in LowerSet |-> Uppers[CHOOSE i \in 1..Len(Lowers) : Lowers[i] = c]]
LowerOf == [c \in UpperSet |-> Lowers[CHOOSE i \in 1..Len(Uppers) : Uppers[i] = c]]

ToUpperChar(c) == IF IsLower(c) THEN UpperOf[c] ELSE c
ToLowerChar(c) == IF IsUpper(c) THEN LowerOf[c] ELSE c

\* strings.ToUpper, strings.ToLower
ToUpper(s) == [i \in 1..Len(s) |-> ToUpperChar(s[i])]
ToLower(s) == [i \in 1..Len(s) |-> ToLowerChar(s[i])]

\* The Go string a character sequence stands for.
RECURSIVE Str(_)
Str(cs) == IF cs = <<>> THEN "" ELSE Head(cs) \o Str(Tail(cs))

\* strings.Join(elems, sep), on TLA+ strings
RECURSIVE Join(_, _)
Join(elems, sep) ==
    IF elems = <<>> THEN ""
    ELSE IF Len(elems) = 1 THEN elems[1]
    ELSE elems[1] \o sep \o Join(Tail(elems), sep)

\* unicode.IsSpace, on the characters the model uses
IsSpace(c) == c \in {" ", "\t", "\n", "\r"}

RECURSIVE TrimLeft(_)
TrimLeft(s) ==
    IF s # <<>> /\ IsSpace(Head(s)) THEN TrimLeft(Tail(s)) ELSE s

RECURSIVE TrimRight(_)
TrimRight(s) ==
    IF s # <<>> /\ IsSpace(s[Len(s)]) THEN TrimRight(SubSeq(s, 1, Len(s) - 1)) ELSE s

\* strings.TrimSpace: leading and trailing white space of the whole string
TrimSpace(s) == TrimRight(TrimLeft(s))

\* strings.Split(s, sep) for a one-character separator: the pieces between
\* the separators, empty pieces included; always at least one piece.
RECURSIVE SplitFrom(_, _, _)
SplitFrom(s, sep, cur) ==
    IF s = <<>> THEN <<cur>>
    ELSE IF Head(s) = sep THEN <<cur>> \o SplitFrom(Tail(s), sep, <<>>)
    ELSE SplitFrom(Tail(s), sep, Append(cur, Head(s)))

Split(s, sep) == SplitFrom(s, sep, <<>>)

\* docLines, without the TrimSpace
docLinesNoTrim(s) == IF s = <<>> THEN <<>> ELSE Split(s, "\n")

(***************************************************************************)
(* docLines (sherpago.go:389)                                              *)
(***************************************************************************)
docLines(s) ==
    LET t == TrimSpace(s)
    IN  IF t = <<>> THEN <<>> ELSE Split(t, "\n")

(***************************************************************************)
(* The parsed types and their rendering (sherpago.go:14-72)                *)
(***************************************************************************)
baseType(name) == [k |-> "base", Name |-> name]
nullableType(t) == [k |-> "nullable", Type |-> t]
arrayType(t) == [k |-> "array", Type |-> t]
objectType(t) == [k |-> "object", Value |-> t]
identType(name) == [k |-> "ident", Name |-> name]

\* panic(genError{...}): the value that unwinds to Generate's deferred recover
genError(what, msg, saw) == [k |-> "genError", what |-> what, msg |-> msg, saw |-> saw]
IsGenError(v) == v.k = "genError"

\* the names parseType's switch takes for base types
BaseNames ==
    {"any", "bool", "int8", "uint8", "int16", "uint16", "int32", "uint32",
     "int64", "uint64", "int64s", "uint64s", "float32", "float64", "string",
     "timestamp"}

\* baseGoType, without the table of spellings
baseGoTypePlain(name) == name

baseGoType(name) ==
    CASE name = "any"       -> "interface{}"
      [] name = "timestamp" -> "time.Time"
      [] name = "int64s"    -> "int64"
      [] name = "uint64s"   -> "uint64"
      [] OTHER              -> name

RECURSIVE GoType(_)
GoType(t) ==
    CASE t.k = "base"     -> baseGoType(t.Name)
      [] t.k = "nullable" -> "*" \o GoType(t.Type)
      [] t.k = "array"    -> "[]" \o GoType(t.Type)
      [] t.k = "object"   -> "map[string]" \o GoType(t.Value)
      [] t.k = "ident"    -> t.Name

(***************************************************************************)
(* parseType (sherpago.go:360): a parsed type, or the genError it panics   *)
(* with. A panic in a recursive call unwinds through the callers.          *)
(***************************************************************************)
\* terminal, without the check for leftover tokens
terminalLax(what, rest, msg, t) == t

\* checkOK(false, tokens, msg) when tokens follow a base type or an identifier
terminal(what, rest, msg, t) ==
    IF Len(rest) # 0 THEN genError(what, msg, rest) ELSE t

RECURSIVE parseType(_, _)
parseType(what, tokens) ==
    IF Len(tokens) = 0
    THEN genError(what, "need at least one element", tokens)
    ELSE LET s    == Head(tokens)
             rest == Tail(tokens)
         IN  CASE s \in BaseNames ->
                    terminal(what, rest, "leftover tokens after base type", baseType(s))
               [] s = "nullable" ->
                    LET t == parseType(what, rest)
                    IN  IF IsGenError(t) THEN t ELSE nullableType(t)
               [] s = "[]" ->
                    LET t == parseType(what, rest)
                    IN  IF IsGenError(t) THEN t ELSE arrayType(t)
               [] s = "{}" ->
                    LET t == parseType(what, rest)
                    IN  IF IsGenError(t) THEN t ELSE objectType(t)
               [] OTHER ->
                    terminal(what, rest, "leftover tokens after identifier type", identType(s))

\* goType (sherpago.go:355): the rendered type, or parseType's genError
goType(what, typeTokens) ==
    LET t == parseType(what, typeTokens)
    IN  IF IsGenError(t) THEN t ELSE [k |-> "ok", s |-> GoType(t)]

(***************************************************************************)
(* Identifiers (sherpago.go:109-115). lintName is the initialism pass of   *)
(* the package's lint.go: the name is cut into words at every change from  *)
(* a lower-case letter to another character, and a word that is a known    *)
(* initialism, whatever its case, is written in capitals.                  *)
(***************************************************************************)
commonInitialisms ==
    {<<"I","D">>, <<"U","R","L">>, <<"A","P","I">>, <<"H","T","T","P">>}

RECURSIVE WordsFrom(_, _)
WordsFrom(s, cur) ==
    IF s = <<>> THEN (IF cur = <<>> THEN <<>> ELSE <<cur>>)
    ELSE IF cur # <<>> /\ IsLower(cur[Len(cur)]) /\ ~IsLower(Head(s))
         THEN <<cur>> \o WordsFrom(Tail(s), <<Head(s)>>)
         ELSE WordsFrom(Tail(s), Append(cur, Head(s)))

RECURSIVE LintWords(_)
LintWords(ws) ==
    IF ws = <<>> THEN <<>>
    ELSE (IF ToUpper(Head(ws)) \in commonInitialisms
          THEN ToUpper(Head(ws)) ELSE Head(ws)) \o LintWords(Tail(ws))

lintName(name) == LintWords(WordsFrom(name, <<>>))

\* lintName(strings.ToUpper(name[:1]) + name[1:]), for a non-empty name
goExportedName(name) == lintName(<<ToUpperChar(Head(name))>> \o Tail(name))

\* strings.ToLower(name[:1]) + name[1:], for a non-empty name
goLocalName(name) == <<ToLowerChar(Head(name))>> \o Tail(name)

(***************************************************************************)
(* What Generate writes: one record per xprintf call.                      *)
(***************************************************************************)
OK == [k |-> "ok"]
\* a run-time panic that is no genError: Generate's recover panics again
runtimePanic(msg) == [k |-> "panic", msg |-> msg]

\* xprintf("%s// %s\n", indent, line)
commentLine(indent, line) == [k |-> "comment", indent |-> indent, text |-> Str(line)]

\* xprintMultiline (sherpago.go:125): what it writes and what it returns
xprintMultiline(indent, docs, always) ==
    LET lines == docLines(docs)
    IN  IF Len(lines) = 1 /\ ~always
        THEN [evs |-> <<>>, lines |-> lines]
        ELSE [evs |-> [i \in 1..Len(lines) |-> commentLine(indent, lines[i])],
              lines |-> lines]

\* xprintSingleline (sherpago.go:136)
xprintSingleline(lines) ==
    IF Len(lines) # 1 THEN <<>>
    ELSE <<[k |-> "inline", text |-> Str(lines[1])]>>

\* generateSectionDocs (sherpago.go:144): the outline comment
RECURSIVE generateSectionDocs(_, _)
RECURSIVE subsectionDocs(_, _)
generateSectionDocs(sec, depth) ==
    xprintMultiline("", sec.Docs, TRUE).evs \o subsectionDocs(sec.Sections, depth + 1)
subsectionDocs(subs, depth) ==
    IF subs = <<>> THEN <<>>
    ELSE <<[k |-> "heading", level |-> depth, name |-> Str(Head(subs).Name)]>>
         \o generateSectionDocs(Head(subs), depth)
         \o subsectionDocs(Tail(subs), depth)

\* the package clause, the imports, Client, NewClient and the call primitive:
\* one xprintf (sherpago.go:154-234)
packageHeader(packageName, baseURL) ==
    [k |-> "package", packageName |-> packageName, baseURL |-> baseURL]

(***************************************************************************)
(* generateTypes, structs (sherpago.go:237-262)                            *)
(***************************************************************************)
\* declDocs, in the mode of the fields: a single line is left to the caller
declDocsAdaptive(docs) == xprintMultiline("", docs, FALSE).evs

\* the documentation of a type or function declaration: xprintMultiline("", docs, true)
declDocs(docs) == xprintMultiline("", docs, TRUE).evs

\* jsonStrOf, looking at the first type word
jsonStrOfFirst(typewords) ==
    IF typewords[1] \in {"int64s", "uint64s"} THEN ",string" ELSE ""

\* jsonStr of a field: the last type word decides
jsonStrOf(typewords) ==
    IF typewords[Len(typewords)] \in {"int64s", "uint64s"} THEN ",string" ELSE ""

\* the json tag of a field: nothing, or the four writes of lines 251-256
fieldTag(goFieldName, name, jsonStr) ==
    IF goFieldName # name \/ jsonStr # ""
    THEN <<[k |-> "tagOpen"]>>
         \o (IF goFieldName # name THEN <<[k |-> "tagName", s |-> Str(name)]>> ELSE <<>>)
         \o <<[k |-> "tagOpt", s |-> jsonStr], [k |-> "tagClose"]>>
    ELSE <<>>

\* one iteration of the loop over t.Fields
fieldOut(t, f) ==
    LET dl   == xprintMultiline("\t", f.Docs, FALSE)
        what == "field " \o Str(f.Name) \o " for type " \o Str(t.Name)
    IN  IF Len(f.Typewords) = 0
        THEN [evs |-> dl.evs, res |-> runtimePanic("index out of range")]
        ELSE LET jsonStr     == jsonStrOf(f.Typewords)
                 goFieldName == goExportedName(f.Name)
                 ty          == goType(what, f.Typewords)
             IN  IF IsGenError(ty)
                 THEN [evs |-> dl.evs, res |-> ty]
                 ELSE [evs |-> dl.evs
                               \o <<[k |-> "field", name |-> Str(goFieldName), type |-> ty.s]>>
                               \o fieldTag(goFieldName, f.Name, jsonStr)
                               \o xprintSingleline(dl.lines)
                               \o <<[k |-> "nl"]>>,
                       res |-> OK]

RECURSIVE fieldsOut(_, _)
fieldsOut(t, fs) ==
    IF fs = <<>> THEN [evs |-> <<>>, res |-> OK]
    ELSE LET r == fieldOut(t, Head(fs))
         IN  IF r.res.k # "ok" THEN r
             ELSE LET rr == fieldsOut(t, Tail(fs))
                  IN  [evs |-> r.evs \o rr.evs, res |-> rr.res]

\* one iteration of the loop over sec.Structs
structOut(t) ==
    LET pre == declDocs(t.Docs) \o <<[k |-> "struct", name |-> Str(goExportedName(t.Name))]>>
        fr  == fieldsOut(t, t.Fields)
    IN  IF fr.res.k # "ok" THEN [evs |-> pre \o fr.evs, res |-> fr.res]
        ELSE [evs |-> pre \o fr.evs \o <<[k |-> "structEnd"]>>, res |-> OK]

(***************************************************************************)
(* generateTypes, enumerations (sherpago.go:264-296)                       *)
(***************************************************************************)
\* strconv.Quote, on the characters the model uses
QuoteChar(c) ==
    CASE c = "\"" -> <<"\\", "\"">>
      [] c = "\\" -> <<"\\", "\\">>
      [] c = "\n" -> <<"\\", "n">>
      [] OTHER    -> <<c>>

RECURSIVE QuoteChars(_)
QuoteChars(s) == IF s = <<>> THEN <<>> ELSE QuoteChar(Head(s)) \o QuoteChars(Tail(s))

Quote(s) == <<"\"">> \o QuoteChars(s) \o <<"\"">>

\* the literal of a value: "%d" of an int, strconv.Quote of a string
intLiteral(v) == ToString(v)
stringLiteral(v) == Quote(v)

\* one iteration of the loops over t.Values; base is "int" or "string"
valueOut(typeName, v, base) ==
    LET dl == xprintMultiline("\t", v.Docs, FALSE)
    IN  dl.evs
        \o <<[k |-> "const", name |-> Str(goExportedName(v.Name)), type |-> Str(typeName),
              value |-> IF base = "int" THEN intLiteral(v.Value) ELSE stringLiteral(v.Value)]>>
        \o xprintSingleline(dl.lines)
        \o <<[k |-> "nl"]>>

RECURSIVE valuesOut(_, _, _)
valuesOut(typeName, vs, base) ==
    IF vs = <<>> THEN <<>>
    ELSE valueOut(typeName, Head(vs), base) \o valuesOut(typeName, Tail(vs), base)

\* constBlock, without the `continue`
constBlockAlways(typeName, vs, base) ==
    <<[k |-> "constOpen"]>> \o valuesOut(typeName, vs, base) \o <<[k |-> "constEnd"]>>

\* the constant block: nothing when there is no value (the `continue`)
constBlock(typeName, vs, base) ==
    IF Len(vs) = 0 THEN <<>>
    ELSE <<[k |-> "constOpen"]>> \o valuesOut(typeName, vs, base) \o <<[k |-> "constEnd"]>>

\* one iteration of the loop over sec.Ints (base "int") or sec.Strings ("string")
enumOut(t, base) ==
    LET typeName == goExportedName(t.Name)
    IN  [evs |-> declDocs(t.Docs)
                 \o <<[k |-> "type", name |-> Str(typeName), base |-> base]>>
                 \o constBlock(typeName, t.Values, base),
         res |-> OK]

(***************************************************************************)
(* generateFunctions (sherpago.go:299-336)                                 *)
(***************************************************************************)
\* the first genError of goType over the type words of ps, or OK
RECURSIVE firstTypeError(_, _)
firstTypeError(what, ps) ==
    IF ps = <<>> THEN OK
    ELSE LET ty == goType(what, Head(ps).Typewords)
         IN  IF IsGenError(ty) THEN ty ELSE firstTypeError(what, Tail(ps))

\* name := fmt.Sprintf("r%d", i)
returnName(i) == "r" \o ToString(i)

\* callName, taking the Go name of the function
callNameExported(fn) == Str(goExportedName(fn.Name))

\* the name handed to c.call: fn.Name as it is in the schema
callName(fn) == Str(fn.Name)

\* the function the template of lines 329-334 writes, by the places of the template
funcDecl(fn, what) ==
    LET n == Len(fn.Params)
        m == Len(fn.Returns)
        paramType(i) == goType(what, fn.Params[i].Typewords).s
        paramName(i) == Str(goLocalName(fn.Params[i].Name))
        typ(i)       == goType(what, fn.Returns[i].Typewords).s
    IN  [k           |-> "func",
         name        |-> Str(goExportedName(fn.Name)),
         args        |-> <<"ctx context.Context">>
                         \o [i \in 1..n |-> paramName(i) \o " " \o paramType(i)],
         results     |-> [i \in 1..m |-> typ(i)] \o <<"error">>,
         vars        |-> [i \in 1..m |-> returnName(i - 1) \o " " \o typ(i)],
         callName    |-> callName(fn),
         callParams  |-> [i \in 1..n |-> paramName(i)],
         callResults |-> [i \in 1..m |-> "&" \o returnName(i - 1)],
         returns     |-> [i \in 1..m |-> returnName(i - 1)] \o <<"err">>]

\* one iteration of the loop over sec.Functions
functionOut(fn) ==
    LET whatParam == "pararameter for " \o Str(fn.Name)
        pe == firstTypeError(whatParam, fn.Params)
        re == firstTypeError(whatParam, fn.Returns)
    IN  IF pe.k # "ok" THEN [evs |-> <<>>, res |-> pe]
        ELSE IF re.k # "ok" THEN [evs |-> <<>>, res |-> re]
        ELSE [evs |-> declDocs(fn.Docs) \o <<funcDecl(fn, whatParam)>>, res |-> OK]

(***************************************************************************)
(* The inputs: schema documents (sherpadoc.Section, decoded from JSON).    *)
(***************************************************************************)
Section(name, docs, structs, ints, strings, functions, sections) ==
    [Name |-> name, Docs |-> docs, Structs |-> structs, Ints |-> ints,
     Strings |-> strings, Functions |-> functions, Sections |-> sections]

\* sequences over S of length at most n
SeqsUpTo(S, n) == UNION {[1..l -> S] : l \in 0..n}

NoDocs == <<>>
DocMenu == {<<>>, <<"a">>, <<"a", "\n", "b">>, <<" ", "a", "\n", "\n", "b", " ">>}

Field(name, tw) == [Name |-> name, Docs |-> NoDocs, Typewords |-> tw]

\* --- documents that differ in the shape of the section tree ---
Shapes1 == SeqsUpTo({<<>>}, MaxSubSubs)
Shapes2 == SeqsUpTo(Shapes1, MaxSubs)

RECURSIVE Paths(_)
Paths(sh) ==
    {<<>>} \cup UNION {{<<i>> \o q : q \in Paths(sh[i])} : i \in 1..Len(sh)}

Suffix(path) == [i \in 1..Len(path) |-> ToString(path[i])]

NoBad == [path |-> <<0>>, where |-> "none"]
Where == {"field", "param", "return"}

RECURSIVE MkSection(_, _, _, _)
MkSection(path, sh, kind, bad) ==
    LET sfx == Suffix(path)
        v   == (kind + Len(path) + (IF path = <<>> THEN 0 ELSE path[Len(path)])) % 3
        hit(w) == bad.path = path /\ bad.where = w
        T(c, tw) == [Name |-> <<"T">> \o sfx \o <<c>>, Docs |-> <<"a">>,
                     Fields |-> <<Field(<<"i", "d">>, <<"int64s">>), Field(<<"x">>, tw)>>]
        F(c, ptw, rtw) == [Name |-> <<"f">> \o sfx \o <<c>>, Docs |-> NoDocs,
                           Params |-> <<Field(<<"p">>, ptw)>>,
                           Returns |-> <<Field(<<>>, rtw)>>]
        I == [Name |-> <<"I">> \o sfx, Docs |-> NoDocs,
              Values |-> <<[Name |-> <<"i">> \o sfx, Docs |-> NoDocs, Value |-> 1]>>]
        E == [Name |-> <<"E">> \o sfx, Docs |-> NoDocs,
              Values |-> <<[Name |-> <<"e">> \o sfx, Docs |-> NoDocs, Value |-> <<"v">>]>>]
        structs == (IF v = 0 THEN <<T("a", <<"string">>), T("b", <<"[]", "bool">>)>>
                    ELSE IF v = 1 THEN <<T("a", <<"string">>)>> ELSE <<>>)
                   \o (IF hit("field") THEN <<T("z", <<"nullable">>)>> ELSE <<>>)
        funcs   == (IF hit("param") THEN <<F("y", <<"string", "x">>, <<"bool">>)>> ELSE <<>>)
                   \o (IF v = 0 THEN <<F("a", <<"string">>, <<"bool">>), F("b", <<"any">>, <<"string">>)>>
                       ELSE IF v = 1 THEN <<F("a", <<"string">>, <<"bool">>)>> ELSE <<>>)
                   \o (IF hit("return") THEN <<F("z", <<"string">>, <<"{}">>)>> ELSE <<>>)
    IN  Section(<<"S">> \o sfx, <<"d">> \o sfx, structs,
                IF v = 0 THEN <<I>> ELSE <<>>, IF v = 0 THEN <<E>> ELSE <<>>, funcs,
                [i \in 1..Len(sh) |-> MkSection(Append(path, i), sh[i], kind, bad)])

TreeSections ==
    UNION {{MkSection(<<>>, sh, 0, bad) :
                bad \in {NoBad} \cup [path : Paths(sh), where : Where]}
           \cup {MkSection(<<>>, sh, 1, NoBad)} :
           sh \in Shapes2}

\* --- documents with one struct, that differ in its fields and documentation ---
FieldNames == {<<"i", "d">>, <<"I", "D">>, <<"u", "s", "e", "r", "I", "d">>}
FieldTypewords ==
    {<<"string">>, <<"int64s">>, <<"[]", "uint64s">>, <<"int64s", "string">>, <<>>}
FieldMenu ==
    {Field(n, tw) : n \in FieldNames, tw \in FieldTypewords}
    \cup {[Name |-> <<"n">>, Docs |-> d, Typewords |-> <<"bool">>] : d \in DocMenu \ {NoDocs}}

ItemName == <<"I", "t", "e", "m">>
OneStruct(docs, fields) ==
    Section(<<"S">>, NoDocs, <<[Name |-> ItemName, Docs |-> docs, Fields |-> fields]>>,
            <<>>, <<>>, <<>>, <<>>)

StructSections ==
    {OneStruct(<<"a">>, fs) : fs \in SeqsUpTo(FieldMenu, MaxFields)}
    \cup {OneStruct(d, <<Field(<<"i", "d">>, <<"string">>)>>) : d \in DocMenu}
    \cup {[OneStruct(<<"a">>, <<Field(<<"i", "d">>, <<"int64s">>)>>) EXCEPT !.Docs = <<"d">>]}

\* --- documents with one enumeration, that differ in its values ---
ValueNames == {<<"a">>, <<"B">>}
IntValues == {[Name |-> n, Docs |-> NoDocs, Value |-> v] : n \in ValueNames, v \in {0, 7, -1}}
StringValues ==
    {[Name |-> n, Docs |-> NoDocs, Value |-> v] :
        n \in ValueNames, v \in {<<>>, <<"x", "y">>, <<"\"", "\\">>}}

EnumSections ==
    {Section(<<"S">>, NoDocs, <<>>,
             <<[Name |-> <<"l", "e", "v", "e", "l">>, Docs |-> <<"a">>, Values |-> vs]>>,
             <<[Name |-> <<"m">>, Docs |-> NoDocs, Values |-> <<>>]>>, <<>>, <<>>) :
        vs \in SeqsUpTo(IntValues, MaxValues)}
    \cup
    {Section(<<"S">>, NoDocs, <<>>,
             <<[Name |-> <<"n">>, Docs |-> NoDocs,
                Values |-> <<[Name |-> <<"z">>, Docs |-> <<"a">>, Value |-> 0]>>]>>,
             <<[Name |-> <<"k", "i", "n", "d">>, Docs |-> NoDocs, Values |-> vs]>>,
             <<>>, <<>>) :
        vs \in SeqsUpTo(StringValues, MaxValues)}

\* --- documents with one function, that differ in its parameters and returns ---
ParamMenu ==
    {Field(n, tw) : n \in {<<"I", "d">>, <<"n", "a", "m", "e">>},
                    tw \in {<<"string">>, <<"[]", "int64s">>, <<"string", "x">>}}
ReturnMenu ==
    {Field(<<>>, tw) : tw \in {<<"Item">>, <<"nullable", "any">>, <<"{}">>}}

FuncWith(ps, rs) ==
    Section(<<"S">>, NoDocs, <<>>, <<>>, <<>>,
            <<[Name |-> <<"g", "e", "t", "I", "d">>, Docs |-> <<"a">>,
               Params |-> ps, Returns |-> rs]>>, <<>>)

FuncSections ==
    {FuncWith(ps, rs) :
        ps \in SeqsUpTo(ParamMenu, MaxParams),
        rs \in {<<>>, <<Field(<<>>, <<"Item">>), Field(<<>>, <<"nullable", "any">>)>>}}
    \cup
    {FuncWith(ps, rs) :
        ps \in {<<>>, <<Field(<<"I", "d">>, <<"int64s">>)>>},
        rs \in SeqsUpTo(ReturnMenu, MaxReturns)}

\* What the reader holds: text that is no JSON, or a document of some version.
\* The root section is the document itself (sherpadoc.Section has the version).
Document(version, sec) == [json |-> TRUE, SherpadocVersion |-> version, sec |-> sec]
Garbage == [json |-> FALSE, SherpadocVersion |-> 0,
            sec |-> Section(<<>>, NoDocs, <<>>, <<>>, <<>>, <<>>, <<>>)]
Versions == {0, sherpadocVersion, sherpadocVersion + 1}

\* the documents Generate is run on
IsInput(d) ==
    \/ d = Garbage
    \/ \E sec \in TreeSections, v \in Versions : d = Document(v, sec)
    \/ \E sec \in StructSections : d = Document(sherpadocVersion, sec)
    \/ \E sec \in EnumSections : d = Document(sherpadocVersion, sec)
    \/ \E sec \in FuncSections : d = Document(sherpadocVersion, sec)

PackageName == "client"
BaseURL == "https://example.org/api/"

(***************************************************************************)
(* Generate (sherpago.go:79-353), step by step.                            *)
(***************************************************************************)
nil == [k |-> "nil"]
noResult == [k |-> "none"]
noCall == [fn |-> "none"]

Init ==
    /\ IsInput(doc)
    /\ pc = "start"
    /\ out = <<>>
    /\ bout = <<>>
    /\ retErr = noResult
    /\ stack = <<>>
    /\ call = noCall

\* xprintf (sherpago.go:118), called once for each entry of evs: fmt.Fprintf(out,
\* ...) writes to the destination itself, never to bout. The first n calls
\* succeed; if there is a next one, the destination's Write fails there, after
\* taking part of the text or nothing, and xprintf panics with genError{err},
\* err being the destination's error ("write error" here).
xprintf(dest, buffered, evs, n, part) ==
    [out  |-> dest \o SubSeq(evs, 1, n)
                   \o (IF n < Len(evs) /\ part
                       THEN <<[k |-> "partial", of |-> evs[n + 1].k]>> ELSE <<>>),
     bout |-> buffered,
     err  |-> IF n < Len(evs) THEN genError("", "write error", <<>>) ELSE OK]

\* how a run of xprintf calls can go: all succeed, or one of them fails
WriteOutcomes(evs) ==
    {<<Len(evs), FALSE>>} \cup ((0..(Len(evs) - 1)) \X BOOLEAN)

\* the deferred recover (sherpago.go:80-90): a genError becomes the result
Recover(e) ==
    /\ retErr' = e
    /\ pc' = "returned"
    /\ stack' = <<>>

\* any other panic goes on to the caller: Generate does not return
Repanic ==
    /\ pc' = "panicked"
    /\ stack' = <<>>
    /\ UNCHANGED retErr

\* json.NewDecoder(in).Decode(&doc)
Decode ==
    /\ pc = "start"
    /\ IF doc.json
       THEN pc' = "decoded" /\ UNCHANGED <<retErr, stack>>
       ELSE Recover(genError("", "parsing sherpadoc json", <<>>))
    /\ UNCHANGED <<doc, out, bout, call>>

\* CheckVersion, accepting every version
CheckVersionLax ==
    /\ pc = "decoded"
    /\ pc' = "versioned"
    /\ UNCHANGED <<doc, out, bout, retErr, stack, call>>

\* if doc.SherpadocVersion != sherpadocVersion
CheckVersion ==
    /\ pc = "decoded"
    /\ IF doc.SherpadocVersion # sherpadocVersion
       THEN Recover(genError("", "unexpected sherpadoc version", <<doc.SherpadocVersion>>))
       ELSE pc' = "versioned" /\ UNCHANGED <<retErr, stack>>
    /\ UNCHANGED <<doc, out, bout, call>>

(***************************************************************************)
(* sherpadoc.Check, the validation of the schema. It is the code of        *)
(* another package and is modelled from the schema's invariant: a          *)
(* sequence of type words is not empty, what follows a wrapper is itself a *)
(* valid sequence, and nothing follows a base type or an identifier. A     *)
(* document that breaks the invariant is refused; what else Check refuses  *)
(* (names used twice, references to types that do not exist) is left open. *)
(***************************************************************************)
Wrappers == {"nullable", "[]", "{}"}

RECURSIVE checkTypewords(_)
checkTypewords(tokens) ==
    IF tokens = <<>> THEN FALSE
    ELSE IF Head(tokens) \in Wrappers THEN checkTypewords(Tail(tokens))
    ELSE Tail(tokens) = <<>>

checkFields(fs) == \A i \in 1..Len(fs) : checkTypewords(fs[i].Typewords)

RECURSIVE checkSection(_)
checkSection(sec) ==
    /\ \A i \in 1..Len(sec.Structs) : checkFields(sec.Structs[i].Fields)
    /\ \A i \in 1..Len(sec.Functions) :
          checkFields(sec.Functions[i].Params) /\ checkFields(sec.Functions[i].Returns)
    /\ \A i \in 1..Len(sec.Sections) : checkSection(sec.Sections[i])

\* the answers Check can give for a document: TRUE for no error
Check(d) == IF checkSection(d.sec) THEN BOOLEAN ELSE {FALSE}

\* Validate, going on whatever Check has answered
ValidateIgnored ==
    /\ pc = "versioned"
    /\ pc' = "checked"
    /\ UNCHANGED <<doc, out, bout, retErr, stack, call>>

\* err = sherpadoc.Check(&doc); if err != nil, panic(genError{err})
Validate ==
    /\ pc = "versioned"
    /\ \E ok \in Check(doc) :
         IF ok THEN pc' = "checked" /\ UNCHANGED <<retErr, stack>>
         ELSE Recover(genError("", "sherpadoc.Check", <<>>))
    /\ UNCHANGED <<doc, out, bout, call>>

\* generateSectionDocs(&doc, 0)
SectionDocs ==
    /\ pc = "checked"
    /\ \E o \in WriteOutcomes(generateSectionDocs(doc.sec, 0)) :
          LET w == xprintf(out, bout, generateSectionDocs(doc.sec, 0), o[1], o[2])
          IN  /\ out' = w.out /\ bout' = w.bout
              /\ IF w.err.k = "ok"
                 THEN pc' = "outline" /\ UNCHANGED <<retErr, stack>>
                 ELSE Recover(w.err)
    /\ UNCHANGED <<doc, call>>

\* xprintf(`package %s ...`, packageName, baseURL), then generateSection(&doc)
Header ==
    /\ pc = "outline"
    /\ \E o \in WriteOutcomes(<<packageHeader(PackageName, BaseURL)>>) :
          LET w == xprintf(out, bout, <<packageHeader(PackageName, BaseURL)>>, o[1], o[2])
          IN  /\ out' = w.out /\ bout' = w.bout
              /\ IF w.err.k = "ok"
                 THEN /\ pc' = "walk"
                      /\ stack' = <<[path |-> <<>>, phase |-> "structs", i |-> 1]>>
                      /\ UNCHANGED retErr
                 ELSE Recover(w.err)
    /\ UNCHANGED <<doc, call>>

RECURSIVE SecAt(_, _)
SecAt(sec, path) ==
    IF path = <<>> THEN sec ELSE SecAt(sec.Sections[Head(path)], Tail(path))

Top == stack[Len(stack)]
TopSec == SecAt(doc.sec, Top.path)
SetTop(f) == [stack EXCEPT ![Len(stack)] = f]

\* one iteration of a declaration loop: its writes, then the next iteration,
\* or the panic that ends Generate: that of a failed write, or the one the
\* iteration ends with after its writes
Iterate(r) ==
    /\ \E o \in WriteOutcomes(r.evs) :
          LET w == xprintf(out, bout, r.evs, o[1], o[2])
          IN  /\ out' = w.out /\ bout' = w.bout
              /\ CASE w.err.k # "ok" -> Recover(w.err)
                   [] w.err.k = "ok" /\ r.res.k = "ok" ->
                        /\ stack' = SetTop([Top EXCEPT !.i = @ + 1])
                        /\ UNCHANGED <<pc, retErr>>
                   [] w.err.k = "ok" /\ r.res.k = "genError" -> Recover(r.res)
                   [] OTHER -> Repanic
    /\ UNCHANGED <<doc, call>>

\* the end of a loop: on to the next loop of generateTypes / generateFunctions
LoopEnd(phase, n, next) ==
    /\ pc = "walk" /\ Top.phase = phase /\ Top.i > n
    /\ stack' = SetTop([Top EXCEPT !.phase = next, !.i = 1])
    /\ UNCHANGED <<doc, pc, out, bout, retErr, call>>

GenStruct ==
    /\ pc = "walk" /\ Top.phase = "structs" /\ Top.i <= Len(TopSec.Structs)
    /\ Iterate(structOut(TopSec.Structs[Top.i]))
StructsEnd == LoopEnd("structs", Len(TopSec.Structs), "ints")

GenInt ==
    /\ pc = "walk" /\ Top.phase = "ints" /\ Top.i <= Len(TopSec.Ints)
    /\ Iterate(enumOut(TopSec.Ints[Top.i], "int"))
IntsEnd == LoopEnd("ints", Len(TopSec.Ints), "strings")

GenString ==
    /\ pc = "walk" /\ Top.phase = "strings" /\ Top.i <= Len(TopSec.Strings)
    /\ Iterate(enumOut(TopSec.Strings[Top.i], "string"))
\* StringsEnd, going past generateFunctions
StringsEndNoFunctions == LoopEnd("strings", Len(TopSec.Strings), "sections")
StringsEnd == LoopEnd("strings", Len(TopSec.Strings), "functions")

GenFunction ==
    /\ pc = "walk" /\ Top.phase = "functions" /\ Top.i <= Len(TopSec.Functions)
    /\ Iterate(functionOut(TopSec.Functions[Top.i]))
FunctionsEnd == LoopEnd("functions", Len(TopSec.Functions), "sections")

\* generateSection(subsec): a new frame; the caller goes on with the next subsection
EnterSection ==
    /\ pc = "walk" /\ Top.phase = "sections" /\ Top.i <= Len(TopSec.Sections)
    /\ stack' = Append(SetTop([Top EXCEPT !.i = @ + 1]),
                       [path |-> Append(Top.path, Top.i), phase |-> "structs", i |-> 1])
    /\ UNCHANGED <<doc, pc, out, bout, retErr, call>>

\* generateSection returns; the return of generateSection(&doc) leads to the flush
LeaveSection ==
    /\ pc = "walk" /\ Top.phase = "sections" /\ Top.i > Len(TopSec.Sections)
    /\ stack' = SubSeq(stack, 1, Len(stack) - 1)
    /\ pc' = IF Len(stack) = 1 THEN "flush" ELSE "walk"
    /\ UNCHANGED <<doc, out, bout, retErr, call>>

\* err = bout.Flush(); if err != nil, panic(genError{err}); return nil.
\* Nothing was written to bout, and a bufio.Writer of its own that holds
\* nothing does not call the destination's Write and does not fail. But
\* bufio.NewWriter(out) (sherpago.go:117) gives out itself when out is a
\* bufio.Writer with a large enough buffer (sameWriter): Flush then flushes
\* what out holds to the writer below it, and that can fail.
Flush ==
    /\ pc = "flush"
    /\ \E sameWriter \in BOOLEAN, ok \in BOOLEAN :
          IF sameWriter /\ ~ok
          THEN /\ Recover(genError("", "write error", <<>>))
               /\ UNCHANGED <<out, bout>>
          ELSE /\ out' = out \o bout
               /\ bout' = <<>>
               /\ retErr' = nil
               /\ pc' = "returned"
               /\ UNCHANGED stack
    /\ UNCHANGED <<doc, call>>

Next ==
    \/ Decode \/ CheckVersion \/ Validate \/ SectionDocs \/ Header
    \/ GenStruct \/ StructsEnd \/ GenInt \/ IntsEnd \/ GenString \/ StringsEnd
    \/ GenFunction \/ FunctionsEnd \/ EnterSection \/ LeaveSection \/ Flush

Spec == Init /\ [][Next]_vars

(***************************************************************************)
(* The pure functions, called on their own: parseType and goType on every  *)
(* sequence of type words, docLines and xprintMultiline on every text.     *)
(***************************************************************************)
TokenMenu == Wrappers \cup {"string", "int64s", "uint64s", "any", "timestamp", "Item"}
TokenSeqs == SeqsUpTo(TokenMenu, MaxTokens)

DocChars == {"a", "b", " ", "\n"}
DocTexts == SeqsUpTo(DocChars, MaxDocLen)

Idle ==
    /\ doc = Garbage
    /\ pc = "idle"
    /\ out = <<>>
    /\ bout = <<>>
    /\ retErr = noResult
    /\ stack = <<>>

Called(fn, arg) == [fn |-> fn, arg |-> arg, state |-> "called", ret |-> noResult]

Return(fn, ret) ==
    /\ call.fn = fn /\ call.state = "called"
    /\ call' = [call EXCEPT !.state = "returned", !.ret = ret]
    /\ UNCHANGED <<doc, pc, out, bout, retErr, stack>>

InitType ==
    /\ Idle
    /\ call \in {Called(fn, t) : fn \in {"parseType", "goType"}, t \in TokenSeqs}

CallParseType == Return("parseType", parseType("x", call.arg))
CallGoType == Return("goType", goType("x", call.arg))

NextType == CallParseType \/ CallGoType
SpecType == InitType /\ [][NextType]_vars

InitDocs ==
    /\ Idle
    /\ call \in {Called("docLines", s) : s \in DocTexts}
                \cup {Called("xprintMultiline", [docs |-> s, always |-> b]) :
                        s \in DocTexts, b \in BOOLEAN}

CallDocLines == Return("docLines", docLines(call.arg))
\* xprintMultiline (sherpago.go:125) called on its own: its comment lines go
\* to the destination through xprintf, and it returns the lines, or does not
\* return when a write fails and xprintf panics
CallXprintMultiline ==
    /\ call.fn = "xprintMultiline" /\ call.state = "called"
    /\ LET r == xprintMultiline("\t", call.arg.docs, call.arg.always)
       IN  \E o \in WriteOutcomes(r.evs) :
              LET w == xprintf(out, bout, r.evs, o[1], o[2])
              IN  /\ out' = w.out /\ bout' = w.bout
                  /\ call' = IF w.err.k = "ok"
                             THEN [call EXCEPT !.state = "returned", !.ret = r.lines]
                             ELSE [call EXCEPT !.state = "panicked", !.ret = w.err]
    /\ UNCHANGED <<doc, pc, retErr, stack>>

NextDocs == CallDocLines \/ CallXprintMultiline
SpecDocs == InitDocs /\ [][NextDocs]_vars

(***************************************************************************)
(* The claims.                                                             *)
(***************************************************************************)
Returned(fn) == call.fn = fn /\ call.state = "returned"

\* zero or more wrapper tokens, then exactly one token that is no wrapper
WellFormed(t) ==
    /\ Len(t) >= 1
    /\ t[Len(t)] \notin Wrappers
    /\ \A i \in 1..(Len(t) - 1) : t[i] \in Wrappers
\* empty at some depth: nothing but wrapper tokens
OnlyWrappers(t) == \A i \in 1..Len(t) : t[i] \in Wrappers
\* tokens after the first token that is no wrapper
Trailing(t) ==
    \E i \in 1..(Len(t) - 1) : t[i] \notin Wrappers /\ \A j \in 1..(i - 1) : t[j] \in Wrappers

\* C4: parseType fails, with a genError that names the context, for every
\* sequence that is empty at some depth (only wrapper tokens) and for every
\* sequence with tokens after its terminal token; it succeeds for every other
\* sequence, and those are the well-formed ones.
C4_ParseFailsExactlyOnMalformed ==
    Returned("parseType") =>
        /\ (OnlyWrappers(call.arg) \/ Trailing(call.arg))
              => (IsGenError(call.ret) /\ call.ret.what = "x")
        /\ ~(OnlyWrappers(call.arg) \/ Trailing(call.arg))
              => (~IsGenError(call.ret) /\ WellFormed(call.arg))
        /\ (OnlyWrappers(call.arg) => call.ret.msg = "need at least one element")

C4_Witness ==
    /\ Returned("parseType")
    /\ call.arg = <<"{}", "string", "Item">>
    /\ IsGenError(call.ret)

\* the tokens a parsed type was built from, outermost first
RECURSIVE Flatten(_)
Flatten(ty) ==
    CASE ty.k = "nullable" -> <<"nullable">> \o Flatten(ty.Type)
      [] ty.k = "array"    -> <<"[]">> \o Flatten(ty.Type)
      [] ty.k = "object"   -> <<"{}">> \o Flatten(ty.Value)
      [] OTHER             -> <<ty.Name>>

RECURSIVE Innermost(_)
Innermost(ty) ==
    CASE ty.k \in {"nullable", "array"} -> Innermost(ty.Type)
      [] ty.k = "object" -> Innermost(ty.Value)
      [] OTHER -> ty

Spelling(tok) ==
    CASE tok = "nullable"  -> "*"
      [] tok = "[]"        -> "[]"
      [] tok = "{}"        -> "map[string]"
      [] tok = "any"       -> "interface{}"
      [] tok = "timestamp" -> "time.Time"
      [] tok = "int64s"    -> "int64"
      [] tok = "uint64s"   -> "uint64"
      [] OTHER             -> tok

\* C5: for a well-formed sequence the parsed type nests in token order, the
\* first token outermost, and the rendered type is the spellings of the
\* tokens, in token order, one after the other.
C5_NestingAndRendering ==
    WellFormed(call.arg) =>
        /\ Returned("parseType") =>
              /\ ~IsGenError(call.ret)
              /\ Flatten(call.ret) = call.arg
              /\ Innermost(call.ret).k =
                    (IF call.arg[Len(call.arg)] \in BaseNames THEN "base" ELSE "ident")
        /\ Returned("goType") =>
              /\ call.ret.k = "ok"
              /\ call.ret.s = Join([i \in 1..Len(call.arg) |-> Spelling(call.arg[i])], "")

C5_Witness ==
    /\ Returned("goType")
    /\ call.arg = <<"nullable", "[]", "string">>
    /\ call.ret = [k |-> "ok", s |-> "*[]string"]

AllSpace(s) == \A i \in 1..Len(s) : IsSpace(s[i])

RECURSIVE JoinLines(_)
JoinLines(lines) ==
    IF Len(lines) = 1 THEN lines[1]
    ELSE lines[1] \o <<"\n">> \o JoinLines(Tail(lines))

\* C10 as claimed: every line docLines returns is non-empty and has no white
\* space at either end, and an all-white-space text gives no line.
C10_EveryLineTrimmedNonEmpty ==
    Returned("docLines") =>
        /\ AllSpace(call.arg) => call.ret = <<>>
        /\ \A i \in 1..Len(call.ret) :
              /\ call.ret[i] # <<>>
              /\ ~IsSpace(call.ret[i][1])
              /\ ~IsSpace(call.ret[i][Len(call.ret[i])])

\* C10 as amended: docLines gives no line exactly for an all-white-space
\* text; otherwise the lines are the text between its first and its last
\* character that is no white space, cut at the line breaks: the first line
\* starts and the last line ends with such a character, and the lines in
\* between are as they are in the text, empty or with white space around them.
C10_TextTrimmedThenSplit ==
    Returned("docLines") =>
        /\ (call.ret = <<>>) <=> AllSpace(call.arg)
        /\ call.ret # <<>> =>
              LET first == call.ret[1]
                  last  == call.ret[Len(call.ret)]
              IN  /\ first # <<>> /\ ~IsSpace(first[1])
                  /\ last # <<>> /\ ~IsSpace(last[Len(last)])
                  /\ \A i \in 1..Len(call.ret) :
                        \A j \in 1..Len(call.ret[i]) : call.ret[i][j] # "\n"
                  /\ \E a \in 0..Len(call.arg), b \in 0..Len(call.arg) :
                        /\ a + b <= Len(call.arg)
                        /\ AllSpace(SubSeq(call.arg, 1, a))
                        /\ AllSpace(SubSeq(call.arg, Len(call.arg) - b + 1, Len(call.arg)))
                        /\ SubSeq(call.arg, a + 1, Len(call.arg) - b) = JoinLines(call.ret)

C10_Witness ==
    /\ Returned("docLines")
    /\ call.arg = <<"a", "\n", "\n", "b">>
    /\ call.ret = <<<<"a">>, <<>>, <<"b">>>>


\* every sequence of type words of a section tree
RECURSIVE AllTypewords(_)
AllTypewords(sec) ==
    {sec.Structs[i].Fields[j].Typewords :
        <<i, j>> \in {<<i, j>> \in (1..Len(sec.Structs)) \X (1..(MaxFields + 1)) :
                        j <= Len(sec.Structs[i].Fields)}}
    \cup UNION {{fn.Params[j].Typewords : j \in 1..Len(fn.Params)}
                \cup {fn.Returns[j].Typewords : j \in 1..Len(fn.Returns)} :
                fn \in {sec.Functions[i] : i \in 1..Len(sec.Functions)}}
    \cup UNION {AllTypewords(sec.Sections[i]) : i \in 1..Len(sec.Sections)}

HasMalformedType(sec) == \E tw \in AllTypewords(sec) : ~WellFormed(tw)

\* Generate has returned the error of a write that failed
WriteFailed(e) == e.k = "genError" /\ e.msg = "write error"

IsPrefix(s, t) == Len(s) <= Len(t) /\ SubSeq(t, 1, Len(s)) = s

IsDecl(e) == e.k \in {"struct", "type", "func"}
\* the declarations the destination has received, in the order of arrival
Decls(o) ==
    LET d == SelectSeq(o, IsDecl)
    IN  [i \in 1..Len(d) |->
            [kind |-> IF d[i].k = "type" THEN d[i].base ELSE d[i].k, name |-> d[i].name]]

\* the schema names of the declarations of a tree
RECURSIVE DeclNames(_)
DeclNames(sec) ==
    {sec.Structs[i].Name : i \in 1..Len(sec.Structs)}
    \cup {sec.Ints[i].Name : i \in 1..Len(sec.Ints)}
    \cup {sec.Strings[i].Name : i \in 1..Len(sec.Strings)}
    \cup {sec.Functions[i].Name : i \in 1..Len(sec.Functions)}
    \cup UNION {DeclNames(sec.Sections[i]) : i \in 1..Len(sec.Sections)}

\* the Go name of every declaration of every document Generate is run on
GoNameOf ==
    [n \in UNION {DeclNames(sec) : sec \in TreeSections \cup StructSections
                                            \cup EnumSections \cup FuncSections}
        |-> Str(goExportedName(n))]

GoNames(ds, kind) ==
    [i \in 1..Len(ds) |-> [kind |-> kind, name |-> GoNameOf[ds[i].Name]]]

\* the declarations of a tree in depth-first pre-order: a section's structs,
\* integer enumerations, string enumerations and functions, then its
\* subsections, one whole subtree after the other
RECURSIVE PreOrder(_)
RECURSIVE PreOrderAll(_)
PreOrder(sec) ==
    GoNames(sec.Structs, "struct") \o GoNames(sec.Ints, "int")
    \o GoNames(sec.Strings, "string") \o GoNames(sec.Functions, "func")
    \o PreOrderAll(sec.Sections)
PreOrderAll(secs) ==
    IF secs = <<>> THEN <<>> ELSE PreOrder(Head(secs)) \o PreOrderAll(Tail(secs))

\* C2: the declarations arrive in depth-first pre-order: at every moment what
\* has arrived is a beginning of that order, and all of it once Generate has
\* returned without error.
C2_DepthFirstPreOrder ==
    /\ IsPrefix(Decls(out), PreOrder(doc.sec))
    /\ retErr.k = "nil" => Decls(out) = PreOrder(doc.sec)

C2_Witness ==
    /\ pc = "returned" /\ retErr.k = "nil"
    /\ Len(doc.sec.Sections) = 2
    /\ Len(doc.sec.Sections[1].Sections) = 1
    /\ Len(doc.sec.Structs) = 2 /\ Len(doc.sec.Functions) = 2
    /\ Len(doc.sec.Sections[2].Structs) = 2
    /\ Len(Decls(out)) = Len(PreOrder(doc.sec))

\* C3: with a version that is not the supported one, Generate returns an
\* error from the version check, and nothing has been written by then:
\* neither to the destination nor to the buffer.
C3_VersionCheckedBeforeAnyWrite ==
    (doc.json /\ doc.SherpadocVersion # sherpadocVersion) =>
        /\ out = <<>> /\ bout = <<>>
        /\ pc \in {"start", "decoded", "returned"}
        /\ pc = "returned" =>
              (retErr.k = "genError" /\ retErr.msg = "unexpected sherpadoc version")

C3_Witness ==
    /\ pc = "returned" /\ retErr.k = "genError"
    /\ doc.json /\ doc.SherpadocVersion = sherpadocVersion + 1
    /\ doc.sec.Docs # <<>> /\ doc.sec.Structs # <<>>
    /\ out = <<>>

(***************************************************************************)
(* Claims about one declaration: what one iteration of a loop writes.      *)
(***************************************************************************)
\* what a step has added to the destination
NewOut == SubSeq(out', Len(out) + 1, Len(out'))

Iterating(phase, n) == pc = "walk" /\ Top.phase = phase /\ Top.i <= n

\* the places of the entries of kind k in s, in order
Places(s, k) ==
    LET P(i) == s[i].k = k
    IN  SelectSeq([i \in 1..Len(s) |-> i], P)

FuncAsDeclared(e, fn) ==
    LET n == Len(fn.Params)
        m == Len(fn.Returns)
        pname(i) == Str(goLocalName(fn.Params[i].Name))
        slot(i) == "r" \o ToString(i - 1)
    IN  /\ e.k = "func"
        /\ Len(e.args) = n + 1
        /\ e.args[1] = "ctx context.Context"
        /\ \A i \in 1..n :
              e.args[i + 1] = pname(i) \o " " \o goType("", fn.Params[i].Typewords).s
        /\ e.callName = Str(fn.Name)
        /\ e.callParams = [i \in 1..n |-> pname(i)]
        /\ e.callResults = [i \in 1..m |-> "&" \o slot(i)]
        /\ Len(e.vars) = m
        /\ \A i \in 1..m : e.vars[i] = slot(i) \o " " \o goType("", fn.Returns[i].Typewords).s
        /\ e.returns = [i \in 1..m |-> slot(i)] \o <<"err">>
        /\ Len(e.results) = m + 1
        /\ e.results[m + 1] = "error"
        /\ \A i \in 1..m : e.results[i] = goType("", fn.Returns[i].Typewords).s

\* C6: the function written for a declaration takes ctx first and then the
\* parameters in declared order, calls the primitive with the schema name,
\* the parameters in order and the addresses of r0..r(m-1) in order, and
\* returns r0..r(m-1) and then the error; without returns it has no slots.
\* Every function that arrives is that one, and it is the last thing to
\* arrive when the iteration goes on to the next declaration.
C6_FunctionAsDeclared ==
    [][Iterating("functions", Len(TopSec.Functions)) =>
          /\ \A i \in 1..Len(NewOut) :
                NewOut[i].k = "func" => FuncAsDeclared(NewOut[i], TopSec.Functions[Top.i])
          /\ pc' = "walk" =>
                /\ NewOut # <<>>
                /\ FuncAsDeclared(NewOut[Len(NewOut)], TopSec.Functions[Top.i])]_vars

C6_Witness ==
    \E i \in 1..Len(out) :
        /\ out[i].k = "func"
        /\ out[i].name = "GetID" /\ out[i].callName = "getId"
        /\ out[i].callParams = <<"id", "name">>
        /\ out[i].callResults = <<"&r0", "&r1">>
        /\ out[i].returns = <<"r0", "r1", "err">>

\* the entries of a tag that starts at place p of s (s[p] is the tagOpen)
TagInner(s, p) ==
    LET q == CHOOSE q \in (p + 1)..Len(s) :
                 s[q].k = "tagClose" /\ \A r \in (p + 1)..(q - 1) : s[r].k # "tagClose"
    IN  SubSeq(s, p + 1, q - 1)

FieldTagAsClaimed(s, p, f) ==
    LET differs == s[p].name # Str(f.Name)
        hint    == f.Typewords[Len(f.Typewords)] \in {"int64s", "uint64s"}
        tagged  == p < Len(s) /\ s[p + 1].k = "tagOpen"
        anyTag  == p < Len(s) /\ s[p + 1].k \in {"tagOpen", "tagName", "tagOpt", "tagClose"}
    IN  /\ tagged <=> (differs \/ hint)
        /\ anyTag => tagged
        /\ tagged =>
              LET inner == TagInner(s, p + 1)
                  names == SelectSeq(inner, LAMBDA e : e.k = "tagName")
                  opts  == SelectSeq(inner, LAMBDA e : e.k = "tagOpt" /\ e.s # "")
              IN  /\ Len(names) = (IF differs THEN 1 ELSE 0)
                  /\ \A i \in 1..Len(names) : names[i].s = Str(f.Name)
                  /\ Len(opts) = (IF hint THEN 1 ELSE 0)
                  /\ \A i \in 1..Len(opts) : opts[i].s = ",string"

\* the line of the field at place p of s has been written to its end: a
\* failed write ends Generate, so a line break after p has the field's own
\* line break before it
FieldLineEnded(s, p) == \E q \in (p + 1)..Len(s) : s[q].k = "nl"

\* C7: a field gets a json tag exactly when its Go name differs from its
\* schema name or its last type word is int64s or uint64s; the tag holds the
\* schema name exactly when the names differ and ",string" exactly when the
\* last type word is one of the two. A field is one whose line has been
\* written to its end; every field of a struct is, when the iteration goes
\* on to the next declaration.
C7_FieldTag ==
    [][Iterating("structs", Len(TopSec.Structs)) =>
          LET t  == TopSec.Structs[Top.i]
              ps == Places(NewOut, "field")
          IN  /\ Len(ps) <= Len(t.Fields)
              /\ pc' = "walk" =>
                    /\ Len(ps) = Len(t.Fields)
                    /\ \A j \in 1..Len(ps) : FieldLineEnded(NewOut, ps[j])
              /\ \A j \in 1..Len(ps) :
                    FieldLineEnded(NewOut, ps[j]) =>
                        FieldTagAsClaimed(NewOut, ps[j], t.Fields[j])]_vars

C7_Witness ==
    /\ \E i \in 1..(Len(out) - 2) :
          /\ out[i] = [k |-> "field", name |-> "ID", type |-> "[]uint64"]
          /\ out[i + 1].k = "tagOpen" /\ out[i + 2] = [k |-> "tagOpt", s |-> ",string"]
    /\ \E i \in 1..(Len(out) - 2) :
          /\ out[i] = [k |-> "field", name |-> "UserID", type |-> "string"]
          /\ out[i + 1].k = "tagOpen" /\ out[i + 2] = [k |-> "tagName", s |-> "userId"]
    /\ pc = "returned" /\ retErr.k = "nil"


\* the string a quoted literal stands for
RECURSIVE Unescape(_)
Unescape(s) ==
    IF s = <<>> THEN <<>>
    ELSE IF Head(s) = "\\" /\ Len(s) >= 2
         THEN <<IF s[2] = "n" THEN "\n" ELSE s[2]>> \o Unescape(SubSeq(s, 3, Len(s)))
         ELSE <<Head(s)>> \o Unescape(Tail(s))

Unquote(lit) == Unescape(SubSeq(lit, 2, Len(lit) - 1))

\* s is what an iteration over the enumeration t has written; whole: the
\* iteration has gone on to the next declaration
EnumAsDeclared(s, t, base, whole) ==
    LET types  == Places(s, "type")
        opens  == Places(s, "constOpen")
        ends   == Places(s, "constEnd")
        consts == Places(s, "const")
        block  == IF Len(t.Values) >= 1 THEN 1 ELSE 0
    IN  /\ Len(types) <= 1 /\ Len(opens) <= block
        /\ Len(ends) <= Len(opens) /\ Len(consts) <= Len(t.Values)
        /\ whole =>
              /\ Len(types) = 1 /\ Len(opens) = block
              /\ Len(ends) = Len(opens) /\ Len(consts) = Len(t.Values)
        /\ \A i \in 1..Len(types) :
              /\ s[types[i]].base = base
              /\ s[types[i]].name = Str(goExportedName(t.Name))
        /\ \A i \in 1..Len(ends) : \A j \in 1..Len(consts) : consts[j] < ends[i]
        /\ Len(ends) = 1 => Len(consts) = Len(t.Values)
        /\ \A i \in 1..Len(consts) :
              /\ Len(types) = 1 /\ Len(opens) = 1
              /\ types[1] < opens[1] /\ opens[1] < consts[i]
              /\ s[consts[i]].name = Str(goExportedName(t.Values[i].Name))
              /\ s[consts[i]].type = s[types[1]].name
              /\ IF base = "int"
                 THEN s[consts[i]].value = ToString(t.Values[i].Value)
                 ELSE /\ Len(s[consts[i]].value) >= 2
                      /\ s[consts[i]].value[1] = "\""
                      /\ s[consts[i]].value[Len(s[consts[i]].value)] = "\""
                      /\ Unquote(s[consts[i]].value) = t.Values[i].Value

\* C8: an enumeration always gets its type definition; it gets a constant
\* block exactly when it has a value, and the block then holds one constant
\* per value, in declared order, with the declared value: the integer in
\* decimal, the text as a quoted literal that stands for the same string.
\* What has arrived of an enumeration is never more than that nor in another
\* order, and it is all of that when the iteration goes on to the next
\* declaration or the block has been closed.
C8_EnumConstants ==
    [][/\ Iterating("ints", Len(TopSec.Ints))
            => EnumAsDeclared(NewOut, TopSec.Ints[Top.i], "int", pc' = "walk")
       /\ Iterating("strings", Len(TopSec.Strings))
            => EnumAsDeclared(NewOut, TopSec.Strings[Top.i], "string", pc' = "walk")]_vars

C8_Witness ==
    /\ pc = "returned" /\ retErr.k = "nil"
    /\ \E i \in 1..(Len(out) - 6) :
          /\ out[i] = [k |-> "type", name |-> "Level", base |-> "int"]
          /\ out[i + 1].k = "constOpen"
          /\ out[i + 2].k = "const" /\ out[i + 2].value = "7"
          /\ out[i + 4].k = "const" /\ out[i + 4].value = "-1"
          /\ out[i + 6].k = "constEnd"
    /\ out[Len(out)] = [k |-> "type", name |-> "M", base |-> "string"]

StructDocsWritten(s, t, lines) ==
    /\ Len(s) > Len(lines)
    /\ \A i \in 1..Len(lines) :
          s[i] = [k |-> "comment", indent |-> "", text |-> Str(lines[i])]
    /\ s[Len(lines) + 1].k = "struct"

\* the struct line has arrived
StructLineWritten(s) == Places(s, "struct") # <<>>

\* C9 as claimed: the documentation of a struct is written in adaptive mode:
\* a comment block before the struct line only with two or more lines, and
\* with exactly one line no comment line before the struct line. Stated for
\* the struct lines that have arrived.
C9_StructDocsAdaptive ==
    [][(Iterating("structs", Len(TopSec.Structs)) /\ StructLineWritten(NewOut)) =>
          LET t     == TopSec.Structs[Top.i]
              lines == docLines(t.Docs)
          IN  IF Len(lines) = 1
              THEN NewOut[1].k = "struct"
              ELSE StructDocsWritten(NewOut, t, lines)]_vars

\* no inline comment is written for the struct line at place p of s: what
\* comes next is not one, nor the beginning of one, and an inline comment
\* that comes later follows a field of its own, with only the tag between
NoInlineForStruct(s, p) ==
    /\ p < Len(s) =>
          /\ s[p + 1].k # "inline"
          /\ ~(s[p + 1].k = "partial" /\ s[p + 1].of = "inline")
    /\ \A q \in (p + 1)..Len(s) :
          s[q].k = "inline" =>
              \E f \in (p + 1)..(q - 1) :
                  /\ s[f].k = "field"
                  /\ \A r \in (f + 1)..(q - 1) :
                        s[r].k \in {"tagOpen", "tagName", "tagOpt", "tagClose"}

\* C9 as amended: the documentation of a struct is written in block mode:
\* every line of it, a single line too, is a comment line of its own before
\* the struct line, in order and without indentation, and no inline comment
\* is written for the struct. The struct line arrives unless a write before
\* it or its own write has failed.
C9_StructDocsBlock ==
    [][Iterating("structs", Len(TopSec.Structs)) =>
          LET t == TopSec.Structs[Top.i]
          IN  /\ StructLineWritten(NewOut) \/ (pc' = "returned" /\ WriteFailed(retErr'))
              /\ StructLineWritten(NewOut) =>
                    /\ StructDocsWritten(NewOut, t, docLines(t.Docs))
                    /\ NoInlineForStruct(NewOut, Len(docLines(t.Docs)) + 1)]_vars

C9_Witness ==
    /\ doc.sec.Structs # <<>>
    /\ doc.sec.Structs[1].Docs = <<"a">>
    /\ doc.sec.Docs = NoDocs
    /\ \E i \in 1..(Len(out) - 2) :
          /\ out[i].k = "package"
          /\ out[i + 1] = [k |-> "comment", indent |-> "", text |-> "a"]
          /\ out[i + 2] = [k |-> "struct", name |-> "Item"]

====
